---------------------------- MODULE Spec2Model ----------------------------
(***************************************************************************)
(* A model of the LARS language-model adapter (src/src/lars-language-      *)
(* model.ts): LarsLanguageModel.doStream and the SSE-to-stream-part        *)
(* TransformStream it returns.                                             *)
(*                                                                         *)
(* Text is modelled at character level: a JavaScript string is a sequence  *)
(* of one-character strings, so that chunk boundaries can fall anywhere    *)
(* (inside the "data: " prefix, inside a JSON payload, between the two     *)
(* newlines of a separator) and so that indexOf, slice, trim, startsWith,  *)
(* replace, JSON.parse and the zod schema are computed on the characters.  *)
(***************************************************************************)
EXTENDS Integers, Sequences, FiniteSets, TLC

(***************************************************************************)
(* Characters and string primitives                                        *)
(***************************************************************************)

NL == "\n"
QUOTE == "\""

\* The white space String.prototype.trim and JSON.parse skip; of it the
\* alphabet of the modelled inputs holds the space and the line feed.
WhiteSpace == {" ", NL}

Digits == {"0", "1", "2", "3", "4", "5", "6", "7", "8", "9"}

DigitValue(ch) ==
  CASE ch = "0" -> 0 [] ch = "1" -> 1 [] ch = "2" -> 2 [] ch = "3" -> 3
    [] ch = "4" -> 4 [] ch = "5" -> 5 [] ch = "6" -> 6 [] ch = "7" -> 7
    [] ch = "8" -> 8 [] ch = "9" -> 9

Min(S) == CHOOSE m \in S : \A n \in S : m <= n

\* String.prototype.indexOf(pat): the 0-based index of the first occurrence,
\* or -1.
IndexOf(s, pat) ==
  LET hits == {i \in 0..(Len(s) - Len(pat)) :
                 \A k \in 1..Len(pat) : s[i + k] = pat[k]}
  IN  IF hits = {} THEN -1 ELSE Min(hits)

\* String.prototype.slice(from) and slice(from, to), 0-based, to exclusive.
SliceFrom(s, from) == SubSeq(s, from + 1, Len(s))
Slice(s, from, to) == SubSeq(s, from + 1, to)

\* String.prototype.startsWith(p)
StartsWith(s, p) ==
  /\ Len(s) >= Len(p)
  /\ \A k \in 1..Len(p) : s[k] = p[k]

\* String.prototype.trim()
Trim(s) ==
  LET keep == {i \in 1..Len(s) : s[i] \notin WhiteSpace}
  IN  IF keep = {} THEN <<>>
      ELSE SubSeq(s, Min(keep), CHOOSE m \in keep : \A n \in keep : m >= n)

(***************************************************************************)
(* JSON values.  Every value is a tagged record, so that an absent         *)
(* (undefined) field, a string and a number can stand in the same place.   *)
(* An object is the sequence of its members in insertion order.            *)
(***************************************************************************)

Undef == [t |-> "undef"]
JNull == [t |-> "null"]
JBool(b) == [t |-> "bool", b |-> b]
JNum(n) == [t |-> "num", n |-> n]
JStr(s) == [t |-> "str", s |-> s]
JObj(members) == [t |-> "obj", o |-> members]

HasKey(obj, key) == \E i \in 1..Len(obj.o) : obj.o[i].k = key

\* obj[key]: the member's value, undefined when there is none.
Get(obj, key) ==
  IF obj.t = "obj" /\ HasKey(obj, key)
  THEN obj.o[CHOOSE i \in 1..Len(obj.o) : obj.o[i].k = key].v
  ELSE Undef

\* A repeated key keeps its place and takes the later value.
ObjPut(members, key, val) ==
  IF \E i \in 1..Len(members) : members[i].k = key
  THEN [i \in 1..Len(members) |->
          IF members[i].k = key THEN [k |-> key, v |-> val] ELSE members[i]]
  ELSE Append(members, [k |-> key, v |-> val])

(***************************************************************************)
(* JSON.parse, by recursive descent over the characters.  The grammar      *)
(* covered is: objects, strings without escape sequences, integers,        *)
(* true, false, null, and white space between tokens.  Arrays, fractions,  *)
(* exponents and escapes are outside the alphabet of the modelled inputs   *)
(* (a "[" is rejected, which is what JSON.parse does with "[DONE]").       *)
(* A result is [ok, val, pos]: pos is the index after the value.           *)
(***************************************************************************)

ParseFail == [ok |-> FALSE, val |-> JNull, pos |-> 0]
ParseOk(val, pos) == [ok |-> TRUE, val |-> val, pos |-> pos]

RECURSIVE SkipWs(_, _)
SkipWs(s, i) ==
  IF i <= Len(s) /\ s[i] \in WhiteSpace THEN SkipWs(s, i + 1) ELSE i

\* s[i] is the opening quote.
ParseString(s, i) ==
  LET closing == {j \in (i + 1)..Len(s) : s[j] = QUOTE}
  IN  IF closing = {} THEN ParseFail
      ELSE LET j == Min(closing)
               body == SubSeq(s, i + 1, j - 1)
           IN  IF \E k \in 1..Len(body) : body[k] \in {NL, "\\"}
               THEN ParseFail
               ELSE ParseOk(JStr(body), j + 1)

RECURSIVE DigitsEnd(_, _)
DigitsEnd(s, i) ==
  IF i <= Len(s) /\ s[i] \in Digits THEN DigitsEnd(s, i + 1) ELSE i

RECURSIVE DigitsValue(_, _, _)
DigitsValue(s, from, to) ==
  IF from > to THEN 0
  ELSE 10 * DigitsValue(s, from, to - 1) + DigitValue(s[to])

\* s[i] is "-" or a digit.
ParseNumber(s, i) ==
  LET neg == s[i] = "-"
      first == IF neg THEN i + 1 ELSE i
      end == DigitsEnd(s, first)
  IN  IF end = first THEN ParseFail
      ELSE IF s[first] = "0" /\ end > first + 1 THEN ParseFail
      ELSE LET n == DigitsValue(s, first, end - 1)
           IN  ParseOk(JNum(IF neg THEN 0 - n ELSE n), end)

ParseLiteral(s, i) ==
  LET rest == SubSeq(s, i, Len(s))
  IN  IF StartsWith(rest, <<"t","r","u","e">>) THEN ParseOk(JBool(TRUE), i + 4)
      ELSE IF StartsWith(rest, <<"f","a","l","s","e">>)
             THEN ParseOk(JBool(FALSE), i + 5)
      ELSE IF StartsWith(rest, <<"n","u","l","l">>) THEN ParseOk(JNull, i + 4)
      ELSE ParseFail

RECURSIVE ParseValue(_, _)
RECURSIVE ParseMembers(_, _, _)

\* s[i] is the first non-blank character after "{" or ",": a member's key.
ParseMembers(s, i, acc) ==
  IF i > Len(s) \/ s[i] # QUOTE THEN ParseFail
  ELSE
    LET key == ParseString(s, i)
    IN  IF ~key.ok THEN ParseFail
        ELSE
          LET colon == SkipWs(s, key.pos)
          IN  IF colon > Len(s) \/ s[colon] # ":" THEN ParseFail
              ELSE
                LET val == ParseValue(s, colon + 1)
                IN  IF ~val.ok THEN ParseFail
                    ELSE
                      LET next == SkipWs(s, val.pos)
                          members == ObjPut(acc, key.val.s, val.val)
                      IN  IF next > Len(s) THEN ParseFail
                          ELSE IF s[next] = "}"
                            THEN ParseOk(JObj(members), next + 1)
                          ELSE IF s[next] = ","
                            THEN ParseMembers(s, SkipWs(s, next + 1), members)
                          ELSE ParseFail

\* s[i] is "{".
ParseObject(s, i) ==
  LET j == SkipWs(s, i + 1)
  IN  IF j <= Len(s) /\ s[j] = "}" THEN ParseOk(JObj(<<>>), j + 1)
      ELSE ParseMembers(s, j, <<>>)

ParseValue(s, i) ==
  LET j == SkipWs(s, i)
  IN  IF j > Len(s) THEN ParseFail
      ELSE IF s[j] = "{" THEN ParseObject(s, j)
      ELSE IF s[j] = QUOTE THEN ParseString(s, j)
      ELSE IF s[j] \in Digits \cup {"-"} THEN ParseNumber(s, j)
      ELSE ParseLiteral(s, j)

\* JSON.parse(text): [ok |-> TRUE, val] or, for a SyntaxError, [ok |-> FALSE].
JSONParse(text) ==
  LET r == ParseValue(text, 1)
  IN  IF r.ok /\ SkipWs(text, r.pos) = Len(text) + 1
      THEN [ok |-> TRUE, val |-> r.val]
      ELSE [ok |-> FALSE, val |-> JNull]

(***************************************************************************)
(* The backend event schema (larsBackendStreamEventSchema)                 *)
(***************************************************************************)

K_type == <<"t","y","p","e">>
K_messageId == <<"m","e","s","s","a","g","e","I","d">>
K_id == <<"i","d">>
K_delta == <<"d","e","l","t","a">>
K_errorText == <<"e","r","r","o","r","T","e","x","t">>
K_finishReason == <<"f","i","n","i","s","h","R","e","a","s","o","n">>
K_usage == <<"u","s","a","g","e">>
K_inputTokens == <<"i","n","p","u","t","T","o","k","e","n","s">>
K_outputTokens == <<"o","u","t","p","u","t","T","o","k","e","n","s">>
K_reasoningTokens == <<"r","e","a","s","o","n","i","n","g","T","o","k","e","n","s">>
K_totalTokens == <<"t","o","t","a","l","T","o","k","e","n","s">>
K_answer == <<"a","n","s","w","e","r">>
K_data == <<"d","a","t","a">>
\* The member of an error body the failure message quotes.
K_detail == <<"d","e","t","a","i","l">>

T_start == <<"s","t","a","r","t">>
T_metadata == <<"m","e","t","a","d","a","t","a">>
T_reasoningStart == <<"r","e","a","s","o","n","i","n","g","-","s","t","a","r","t">>
T_reasoningDelta == <<"r","e","a","s","o","n","i","n","g","-","d","e","l","t","a">>
T_reasoningEnd == <<"r","e","a","s","o","n","i","n","g","-","e","n","d">>
T_textStart == <<"t","e","x","t","-","s","t","a","r","t">>
T_textDelta == <<"t","e","x","t","-","d","e","l","t","a">>
T_textEnd == <<"t","e","x","t","-","e","n","d">>
T_error == <<"e","r","r","o","r">>
T_finish == <<"f","i","n","i","s","h">>
T_done == <<"d","o","n","e">>

\* z.enum([...]) of the type tag
BackendTypes ==
  {T_start, T_metadata, T_reasoningStart, T_reasoningDelta, T_reasoningEnd,
   T_textStart, T_textDelta, T_textEnd, T_error, T_finish, T_done}

\* z.string().optional(); z.number() and z.number().optional()
IsOptionalString(v) == v.t \in {"undef", "str"}
IsNumber(v) == v.t = "num"
IsOptionalNumber(v) == v.t \in {"undef", "num"}

\* usage: z.object({inputTokens, outputTokens, reasoningTokens?, totalTokens})
\*          .optional()
UsageValid(u) ==
  \/ u.t = "undef"
  \/ /\ u.t = "obj"
     /\ IsNumber(Get(u, K_inputTokens))
     /\ IsNumber(Get(u, K_outputTokens))
     /\ IsOptionalNumber(Get(u, K_reasoningTokens))
     /\ IsNumber(Get(u, K_totalTokens))

\* The parsed usage: the declared keys only (z.object strips the others).
UsageData(u) ==
  IF u.t = "undef" THEN Undef
  ELSE [t |-> "usage",
        inputTokens |-> Get(u, K_inputTokens).n,
        outputTokens |-> Get(u, K_outputTokens).n,
        reasoningTokens |-> Get(u, K_reasoningTokens),
        totalTokens |-> Get(u, K_totalTokens).n]

\* data: z.record(z.unknown()).optional()
IsOptionalRecord(v) == v.t \in {"undef", "obj"}

SchemaValid(json) ==
  /\ json.t = "obj"
  /\ Get(json, K_type).t = "str"
  /\ Get(json, K_type).s \in BackendTypes
  /\ IsOptionalString(Get(json, K_messageId))
  /\ IsOptionalString(Get(json, K_id))
  /\ IsOptionalString(Get(json, K_delta))
  /\ IsOptionalString(Get(json, K_errorText))
  /\ IsOptionalString(Get(json, K_finishReason))
  /\ UsageValid(Get(json, K_usage))
  /\ IsOptionalRecord(Get(json, K_data))

\* larsBackendStreamEventSchema.safeParse(json): {success, data}
SafeParse(json) ==
  IF SchemaValid(json)
  THEN [success |-> TRUE,
        data |-> [type |-> Get(json, K_type).s,
                  messageId |-> Get(json, K_messageId),
                  id |-> Get(json, K_id),
                  delta |-> Get(json, K_delta),
                  errorText |-> Get(json, K_errorText),
                  finishReason |-> Get(json, K_finishReason),
                  usage |-> UsageData(Get(json, K_usage)),
                  answer |-> Get(json, K_answer),
                  data |-> Get(json, K_data)]]
  ELSE [success |-> FALSE]

(***************************************************************************)
(* The translation of a validated event into stream parts (the switch)     *)
(***************************************************************************)

ReasoningBlock == <<"r","e","a","s","o","n","i","n","g","-","b","l","o","c","k">>
TextBlock == <<"t","e","x","t","-","b","l","o","c","k">>
Stop == <<"s","t","o","p">>
UnknownBackendError ==
  <<"A","n"," ","u","n","k","n","o","w","n"," ","b","a","c","k","e","n","d"," ",
    "e","r","r","o","r"," ","o","c","c","u","r","r","e","d",".">>

\* A test for presence in place of truthiness: `if (event.delta !== undefined)`.
TruthyWhenDefined(v) == v.t # "undef"

\* A truthiness for which an empty record is false.
TruthyUnlessEmpty(v) ==
  CASE v.t = "undef" -> FALSE
    [] v.t = "null" -> FALSE
    [] v.t = "str" -> v.s # <<>>
    [] v.t = "num" -> v.n # 0
    [] v.t = "bool" -> v.b
    [] v.t = "obj" -> v.o # <<>>
    [] OTHER -> TRUE

\* JavaScript truthiness of an optional string or record: `if (event.delta)`,
\* `if (event.data)`.
Truthy(v) ==
  CASE v.t = "undef" -> FALSE
    [] v.t = "null" -> FALSE
    [] v.t = "str" -> v.s # <<>>
    [] v.t = "num" -> v.n # 0
    [] v.t = "bool" -> v.b
    [] OTHER -> TRUE

\* `v || dflt`: the default also replaces the empty string.
OrElseWhenFalsy(v, dflt) ==
  IF v.t \in {"undef", "null"} \/ v.s = <<>> THEN dflt ELSE v.s

\* `v ?? dflt` on an optional string
OrElse(v, dflt) == IF v.t \in {"undef", "null"} THEN dflt ELSE v.s

\* A finish part that forgets the counts supplied.
FinishUsageAlwaysZero(usage) ==
  [inputTokens |-> 0, outputTokens |-> 0, totalTokens |-> 0,
   reasoningTokens |-> IF usage.t = "undef" THEN Undef
                       ELSE usage.reasoningTokens]

\* A finish part that zero-fills reasoningTokens as it does the other counts.
FinishUsageZeroReasoning(usage) ==
  IF usage.t = "undef"
  THEN [inputTokens |-> 0, outputTokens |-> 0, totalTokens |-> 0,
        reasoningTokens |-> JNum(0)]
  ELSE [inputTokens |-> usage.inputTokens,
        outputTokens |-> usage.outputTokens,
        totalTokens |-> usage.totalTokens,
        reasoningTokens |-> IF usage.reasoningTokens.t = "undef" THEN JNum(0)
                            ELSE usage.reasoningTokens]

\* The usage of a finish part: event.usage?.<count> ?? 0 for the three counts,
\* event.usage?.reasoningTokens as it is.
FinishUsage(usage) ==
  IF usage.t = "undef"
  THEN [inputTokens |-> 0, outputTokens |-> 0, totalTokens |-> 0,
        reasoningTokens |-> Undef]
  ELSE [inputTokens |-> usage.inputTokens,
        outputTokens |-> usage.outputTokens,
        totalTokens |-> usage.totalTokens,
        reasoningTokens |-> usage.reasoningTokens]

\* A done case that forwards the sentinel.
OnDoneForwarded == << [type |-> "done"] >>

\* case 'done': break;
OnDone == <<>>

\* The parts one validated event enqueues, in order.
Translate(event) ==
  CASE event.type = T_start ->
         << [type |-> "stream-start", warnings |-> <<>>] >>
    [] event.type = T_metadata ->
         IF Truthy(event.data)
         THEN << [type |-> "data", data |-> event.data] >>
         ELSE <<>>
    [] event.type = T_reasoningStart ->
         << [type |-> "reasoning-start", id |-> OrElse(event.id, ReasoningBlock)] >>
    [] event.type = T_reasoningDelta ->
         IF Truthy(event.delta)
         THEN << [type |-> "reasoning-delta",
                  id |-> OrElse(event.id, ReasoningBlock),
                  delta |-> event.delta.s] >>
         ELSE <<>>
    [] event.type = T_reasoningEnd ->
         << [type |-> "reasoning-end", id |-> OrElse(event.id, ReasoningBlock)] >>
    [] event.type = T_textStart ->
         << [type |-> "text-start", id |-> OrElse(event.id, TextBlock)] >>
    [] event.type = T_textDelta ->
         IF Truthy(event.delta)
         THEN << [type |-> "text-delta",
                  id |-> OrElse(event.id, TextBlock),
                  delta |-> event.delta.s] >>
         ELSE <<>>
    [] event.type = T_textEnd ->
         << [type |-> "text-end", id |-> OrElse(event.id, TextBlock)] >>
    [] event.type = T_error ->
         << [type |-> "error",
             error |-> [message |-> OrElse(event.errorText, UnknownBackendError)]] >>
    [] event.type = T_finish ->
         << [type |-> "finish",
             finishReason |-> OrElse(event.finishReason, Stop),
             usage |-> FinishUsage(event.usage)] >>
    [] event.type = T_done -> OnDone
    [] OTHER -> <<>>

\* The parts of the stream, as the claims name them.
StreamStart == [type |-> "stream-start", warnings |-> <<>>]
DataPart(data) == [type |-> "data", data |-> data]
ReasoningStart(id) == [type |-> "reasoning-start", id |-> id]
ReasoningDelta(id, delta) == [type |-> "reasoning-delta", id |-> id, delta |-> delta]
ReasoningEnd(id) == [type |-> "reasoning-end", id |-> id]
TextStart(id) == [type |-> "text-start", id |-> id]
TextDelta(id, delta) == [type |-> "text-delta", id |-> id, delta |-> delta]
TextEnd(id) == [type |-> "text-end", id |-> id]
ErrorPart(message) == [type |-> "error", error |-> [message |-> message]]
FinishPart(finishReason, usage) ==
  [type |-> "finish", finishReason |-> finishReason, usage |-> usage]
ZeroUsage ==
  [inputTokens |-> 0, outputTokens |-> 0, totalTokens |-> 0,
   reasoningTokens |-> Undef]

(***************************************************************************)
(* The transform of the TransformStream: the frame loop                    *)
(***************************************************************************)

Separator == <<NL, NL>>
DataPrefix == <<"d","a","t","a",":"," ">>
DoneMarker == <<"d","a","t","a",":"," ","[","D","O","N","E","]">>

\* message.replace(/^data: /, '')
StripDataPrefix(message) ==
  IF StartsWith(message, DataPrefix)
  THEN SliceFrom(message, Len(DataPrefix))
  ELSE message

\* One pass of the loop body: the message it took from the buffer, the parts
\* it enqueued, and how it ended: "ok" (the loop goes on), "throw" (an
\* exception leaves transform, which errors the stream) or "terminate" (the
\* controller is told to close the stream).
Pass(message, parts, signal) ==
  [message |-> message, parts |-> parts, signal |-> signal]

\* `continue` for a blank message and for the literal data: [DONE].
IsSkipped(message) ==
  Trim(message) = <<>> \/ StartsWith(message, DoneMarker)

\* A loop without the catch block: the SyntaxError leaves transform.
OnSyntaxErrorUncaught(message) == Pass(message, <<>>, "throw")

\* The catch block: JSON.parse threw; the failure is logged and the loop goes on.
OnSyntaxError(message) == Pass(message, <<>>, "ok")

\* !validationResult.success: logged, `continue`.
OnInvalidEvent(message) == Pass(message, <<>>, "ok")

\* A switch that closes the stream after an error event.
AfterEventErrorCloses(event) ==
  IF event.type = T_error THEN "terminate" ELSE "ok"

\* A switch that closes the stream after a finish or a done event.
AfterEventFinishCloses(event) ==
  IF event.type \in {T_finish, T_done} THEN "terminate" ELSE "ok"

\* `break` at the end of every case of the switch: the loop goes on to the
\* next message, whatever the event was.
AfterEvent(event) == "ok"

\* switch (event.type) { ... }: the parts of the event's case, then `break`.
Dispatch(message, event) ==
  Pass(message, Translate(event), AfterEvent(event))

ProcessMessage(message) ==
  IF IsSkipped(message) THEN Pass(message, <<>>, "ok")
  ELSE LET jsonString == StripDataPrefix(message)
           json == JSONParse(jsonString)
       IN  IF ~json.ok THEN OnSyntaxError(message)
           ELSE LET validationResult == SafeParse(json.val)
                IN  IF ~validationResult.success THEN OnInvalidEvent(message)
                    ELSE Dispatch(message, validationResult.data)

\* A slice that keeps the separator: buffer.slice(separatorIndex).
AfterSeparatorKept(separatorIndex) == separatorIndex

\* The index after the separator: buffer.slice(separatorIndex + 2).
AfterSeparator(separatorIndex) == separatorIndex + 2

\* `if` in the place of `while`: one message for each chunk.
ProcessBufferOnce(buffer, passes) ==
  LET separatorIndex == IndexOf(buffer, Separator)
  IN  IF separatorIndex = -1
      THEN [buffer |-> buffer, passes |-> passes, signal |-> "ok"]
      ELSE LET pass == ProcessMessage(Slice(buffer, 0, separatorIndex))
           IN  [buffer |-> SliceFrom(buffer, AfterSeparator(separatorIndex)),
                passes |-> Append(passes, pass), signal |-> pass.signal]

\* while (true) { ... }: the messages complete in the buffer, in order.  The
\* result is the buffer left and the passes made; the loop ends when no
\* separator is left, or when a pass does not end "ok".
RECURSIVE ProcessBuffer(_, _)
ProcessBuffer(buffer, passes) ==
  LET separatorIndex == IndexOf(buffer, Separator)
  IN  IF separatorIndex = -1
      THEN [buffer |-> buffer, passes |-> passes, signal |-> "ok"]
      ELSE LET message == Slice(buffer, 0, separatorIndex)
               rest == SliceFrom(buffer, AfterSeparator(separatorIndex))
               pass == ProcessMessage(message)
           IN  IF pass.signal # "ok"
               THEN [buffer |-> rest, passes |-> Append(passes, pass),
                     signal |-> pass.signal]
               ELSE ProcessBuffer(rest, Append(passes, pass))

\* A transform that forgets the text carried over: buffer = chunk.
AppendChunkForgetting(buffer, chunk) == chunk

\* buffer += chunk
AppendChunk(buffer, chunk) == buffer \o chunk

\* transform(chunk, controller)
Transform(buffer, chunk) == ProcessBuffer(AppendChunk(buffer, chunk), <<>>)

\* A transformer with a flush that puts the text left through the loop body.
FlushTakesRest(buffer) ==
  IF buffer = <<>> THEN <<>> ELSE ProcessMessage(buffer).parts

\* The transformer passed to new TransformStream has a transform and no
\* flush: nothing is enqueued when the writable side closes.
Flush(buffer) == <<>>

\* A queue that takes new parts at its head.
EnqueueAtHead(queue, parts) == parts \o queue

\* controller.enqueue(part), for the parts of one pass: they join the queue of
\* the readable side behind those already there.
Enqueue(queue, parts) == queue \o parts

\* The queue after the passes of one transform call.
RECURSIVE EnqueueAll(_, _)
EnqueueAll(queue, passes) ==
  IF passes = <<>> THEN queue
  ELSE EnqueueAll(Enqueue(queue, Head(passes).parts), Tail(passes))

(***************************************************************************)
(* The inbound text: frames the backend may send, without their separator  *)
(***************************************************************************)

\* data: {"type":"start"}
F_start ==
  <<"d","a","t","a",":"," ","{","\"","t","y","p","e","\"",":","\"","s","t",
    "a","r","t","\"","}">>

\* data: {"type":"metadata","data":{"k":"v"}}
F_metadata ==
  <<"d","a","t","a",":"," ","{","\"","t","y","p","e","\"",":","\"","m","e",
    "t","a","d","a","t","a","\"",",","\"","d","a","t","a","\"",":","{","\"",
    "k","\"",":","\"","v","\"","}","}">>

\* data: {"type":"metadata","data":{}}
F_metadataEmpty ==
  <<"d","a","t","a",":"," ","{","\"","t","y","p","e","\"",":","\"","m","e",
    "t","a","d","a","t","a","\"",",","\"","d","a","t","a","\"",":","{","}",
    "}">>

\* data: {"type":"metadata"}
F_metadataNone ==
  <<"d","a","t","a",":"," ","{","\"","t","y","p","e","\"",":","\"","m","e",
    "t","a","d","a","t","a","\"","}">>

\* data: {"type":"reasoning-start"}
F_reasoningStart ==
  <<"d","a","t","a",":"," ","{","\"","t","y","p","e","\"",":","\"","r","e",
    "a","s","o","n","i","n","g","-","s","t","a","r","t","\"","}">>

\* data: {"type":"reasoning-delta","id":"r1","delta":"Hm"}
F_reasoningDelta ==
  <<"d","a","t","a",":"," ","{","\"","t","y","p","e","\"",":","\"","r","e",
    "a","s","o","n","i","n","g","-","d","e","l","t","a","\"",",","\"","i",
    "d","\"",":","\"","r","1","\"",",","\"","d","e","l","t","a","\"",":",
    "\"","H","m","\"","}">>

\* data: {"type":"reasoning-delta","delta":""}
F_reasoningDeltaEmpty ==
  <<"d","a","t","a",":"," ","{","\"","t","y","p","e","\"",":","\"","r","e",
    "a","s","o","n","i","n","g","-","d","e","l","t","a","\"",",","\"","d",
    "e","l","t","a","\"",":","\"","\"","}">>

\* data: {"type":"reasoning-end","id":"r1"}
F_reasoningEnd ==
  <<"d","a","t","a",":"," ","{","\"","t","y","p","e","\"",":","\"","r","e",
    "a","s","o","n","i","n","g","-","e","n","d","\"",",","\"","i","d","\"",
    ":","\"","r","1","\"","}">>

\* data: {"type":"text-start","id":"t1"}
F_textStart ==
  <<"d","a","t","a",":"," ","{","\"","t","y","p","e","\"",":","\"","t","e",
    "x","t","-","s","t","a","r","t","\"",",","\"","i","d","\"",":","\"","t",
    "1","\"","}">>

\* data: {"type":"text-delta","id":"t1","delta":"Hi"}
F_textDeltaHi ==
  <<"d","a","t","a",":"," ","{","\"","t","y","p","e","\"",":","\"","t","e",
    "x","t","-","d","e","l","t","a","\"",",","\"","i","d","\"",":","\"","t",
    "1","\"",",","\"","d","e","l","t","a","\"",":","\"","H","i","\"","}">>

\* data: {"type":"text-delta","id":"t1","delta":" there"}
F_textDeltaThere ==
  <<"d","a","t","a",":"," ","{","\"","t","y","p","e","\"",":","\"","t","e",
    "x","t","-","d","e","l","t","a","\"",",","\"","i","d","\"",":","\"","t",
    "1","\"",",","\"","d","e","l","t","a","\"",":","\""," ","t","h","e","r",
    "e","\"","}">>

\* data: {"type":"text-delta","delta":"X"}
F_textDeltaX ==
  <<"d","a","t","a",":"," ","{","\"","t","y","p","e","\"",":","\"","t","e",
    "x","t","-","d","e","l","t","a","\"",",","\"","d","e","l","t","a","\"",
    ":","\"","X","\"","}">>

\* data: {"type":"text-delta","id":"t1","delta":""}
F_textDeltaEmpty ==
  <<"d","a","t","a",":"," ","{","\"","t","y","p","e","\"",":","\"","t","e",
    "x","t","-","d","e","l","t","a","\"",",","\"","i","d","\"",":","\"","t",
    "1","\"",",","\"","d","e","l","t","a","\"",":","\"","\"","}">>

\* data: {"type":"text-delta"}
F_textDeltaAbsent ==
  <<"d","a","t","a",":"," ","{","\"","t","y","p","e","\"",":","\"","t","e",
    "x","t","-","d","e","l","t","a","\"","}">>

\* data: {"type":"text-end"}
F_textEnd ==
  <<"d","a","t","a",":"," ","{","\"","t","y","p","e","\"",":","\"","t","e",
    "x","t","-","e","n","d","\"","}">>

\* data: {"type":"text-end","id":"t1"}
F_textEndId ==
  <<"d","a","t","a",":"," ","{","\"","t","y","p","e","\"",":","\"","t","e",
    "x","t","-","e","n","d","\"",",","\"","i","d","\"",":","\"","t","1",
    "\"","}">>

\* data: {"type":"reasoning-end"}
F_reasoningEndBare ==
  <<"d","a","t","a",":"," ","{","\"","t","y","p","e","\"",":","\"","r","e",
    "a","s","o","n","i","n","g","-","e","n","d","\"","}">>

\* data: {"type":"text-start"}
F_textStartBare ==
  <<"d","a","t","a",":"," ","{","\"","t","y","p","e","\"",":","\"","t","e",
    "x","t","-","s","t","a","r","t","\"","}">>

\* data: {"type":"reasoning-delta","id":"","delta":"Hm"}
F_reasoningDeltaEmptyId ==
  <<"d","a","t","a",":"," ","{","\"","t","y","p","e","\"",":","\"","r","e",
    "a","s","o","n","i","n","g","-","d","e","l","t","a","\"",",","\"","i","d",
    "\"",":","\"","\"",",","\"","d","e","l","t","a","\"",":","\"","H","m",
    "\"","}">>

\* data: {"type":"error","errorText":"boom"}
F_error ==
  <<"d","a","t","a",":"," ","{","\"","t","y","p","e","\"",":","\"","e","r",
    "r","o","r","\"",",","\"","e","r","r","o","r","T","e","x","t","\"",":",
    "\"","b","o","o","m","\"","}">>

\* data: {"type":"error"}
F_errorNoText ==
  <<"d","a","t","a",":"," ","{","\"","t","y","p","e","\"",":","\"","e","r",
    "r","o","r","\"","}">>

\* data: {"type":"finish","finishReason":"stop"}
F_finishStop ==
  <<"d","a","t","a",":"," ","{","\"","t","y","p","e","\"",":","\"","f","i",
    "n","i","s","h","\"",",","\"","f","i","n","i","s","h","R","e","a","s",
    "o","n","\"",":","\"","s","t","o","p","\"","}">>

\* data: {"type":"finish"}
F_finishBare ==
  <<"d","a","t","a",":"," ","{","\"","t","y","p","e","\"",":","\"","f","i",
    "n","i","s","h","\"","}">>

\* data: {"type":"finish","finishReason":""}
F_finishEmptyReason ==
  <<"d","a","t","a",":"," ","{","\"","t","y","p","e","\"",":","\"","f","i",
    "n","i","s","h","\"",",","\"","f","i","n","i","s","h","R","e","a","s",
    "o","n","\"",":","\"","\"","}">>

\* data: {"type":"finish","finishReason":"length","usage":{"inputTokens":3,"outputTokens":5,"totalTokens":8}}
F_finishUsage ==
  <<"d","a","t","a",":"," ","{","\"","t","y","p","e","\"",":","\"","f","i",
    "n","i","s","h","\"",",","\"","f","i","n","i","s","h","R","e","a","s",
    "o","n","\"",":","\"","l","e","n","g","t","h","\"",",","\"","u","s","a",
    "g","e","\"",":","{","\"","i","n","p","u","t","T","o","k","e","n","s",
    "\"",":","3",",","\"","o","u","t","p","u","t","T","o","k","e","n","s",
    "\"",":","5",",","\"","t","o","t","a","l","T","o","k","e","n","s","\"",
    ":","8","}","}">>

\* data: {"type":"finish","usage":{"inputTokens":3,"outputTokens":5,"reasoningTokens":2,"totalTokens":10}}
F_finishReasoning ==
  <<"d","a","t","a",":"," ","{","\"","t","y","p","e","\"",":","\"","f","i",
    "n","i","s","h","\"",",","\"","u","s","a","g","e","\"",":","{","\"","i",
    "n","p","u","t","T","o","k","e","n","s","\"",":","3",",","\"","o","u",
    "t","p","u","t","T","o","k","e","n","s","\"",":","5",",","\"","r","e",
    "a","s","o","n","i","n","g","T","o","k","e","n","s","\"",":","2",",",
    "\"","t","o","t","a","l","T","o","k","e","n","s","\"",":","1","0","}",
    "}">>

\* data: {"type":"finish","usage":{"inputTokens":3}}
F_finishPartial ==
  <<"d","a","t","a",":"," ","{","\"","t","y","p","e","\"",":","\"","f","i",
    "n","i","s","h","\"",",","\"","u","s","a","g","e","\"",":","{","\"","i",
    "n","p","u","t","T","o","k","e","n","s","\"",":","3","}","}">>

\* data: {"type":"done"}
F_done ==
  <<"d","a","t","a",":"," ","{","\"","t","y","p","e","\"",":","\"","d","o",
    "n","e","\"","}">>

\* data: [DONE]
F_doneMarker ==
  <<"d","a","t","a",":"," ","[","D","O","N","E","]">>

\* (the empty frame)
F_empty ==
  <<>>

\*  
F_blank ==
  <<" ">>

\* data: {"type":"start"
F_truncated ==
  <<"d","a","t","a",":"," ","{","\"","t","y","p","e","\"",":","\"","s","t",
    "a","r","t","\"">>

\* data: oops
F_notJson ==
  <<"d","a","t","a",":"," ","o","o","p","s">>

\* data: {"type":"text-delta","delta":5}
F_deltaNumber ==
  <<"d","a","t","a",":"," ","{","\"","t","y","p","e","\"",":","\"","t","e",
    "x","t","-","d","e","l","t","a","\"",",","\"","d","e","l","t","a","\"",
    ":","5","}">>

\* data: {"type":"ping"}
F_unknownType ==
  <<"d","a","t","a",":"," ","{","\"","t","y","p","e","\"",":","\"","p","i",
    "n","g","\"","}">>

\* data: 7
F_notObject ==
  <<"d","a","t","a",":"," ","7">>

\* \ndata: {"type":"start"}
F_lineFeedFirst ==
  <<"\n","d","a","t","a",":"," ","{","\"","t","y","p","e","\"",":","\"","s",
    "t","a","r","t","\"","}">>

\* {"type":"start"}
F_noPrefix ==
  <<"{","\"","t","y","p","e","\"",":","\"","s","t","a","r","t","\"","}">>

\* data:  { "type" : "text-end" , "answer" : null }
F_spaced ==
  <<"d","a","t","a",":"," "," ","{"," ","\"","t","y","p","e","\""," ",":",
    " ","\"","t","e","x","t","-","e","n","d","\""," ",","," ","\"","a","n",
    "s","w","e","r","\""," ",":"," ","n","u","l","l"," ","}">>

\* The frame most streams are made of, and those with one case each.
CommonFrames == {F_textDeltaHi}

RareFrames ==
  {F_start, F_metadata, F_metadataEmpty, F_metadataNone, F_reasoningStart,
   F_reasoningDelta, F_reasoningDeltaEmpty, F_reasoningEnd, F_textStart,
   F_textDeltaThere, F_textDeltaX, F_textDeltaEmpty, F_textDeltaAbsent,
   F_textEnd, F_error, F_errorNoText, F_finishStop, F_finishBare, F_finishEmptyReason,
   F_finishUsage, F_finishReasoning, F_finishPartial, F_done, F_doneMarker,
   F_empty, F_blank, F_truncated, F_notJson, F_deltaNumber, F_unknownType,
   F_notObject, F_lineFeedFirst, F_noPrefix, F_spaced, F_reasoningEndBare,
   F_textStartBare, F_reasoningDeltaEmptyId}

Catalogue == CommonFrames \cup RareFrames

\* Bounds of the model: the frames of one inbound text, and the longest chunk
\* short of "all the rest".
MaxFrames == 2
MaxChunk == 2

\* The frame lists of the modelled streams: up to MaxFrames frames, at most
\* one of them a rare one.
FrameSeqs ==
  {fs \in UNION {[1..n -> Catalogue] : n \in 0..MaxFrames} :
     Cardinality({i \in DOMAIN fs : fs[i] \in RareFrames}) <= 1}

\* The stream of the specification's scenario.
ScenarioFrames ==
  <<F_start, F_textStart, F_textDeltaHi, F_textDeltaThere, F_textEndId,
    F_finishStop, F_doneMarker>>

\* The text on the wire: every frame followed by the blank-line separator.
RECURSIVE Wire(_)
Wire(fs) ==
  IF fs = <<>> THEN <<>> ELSE Head(fs) \o Separator \o Wire(Tail(fs))

(***************************************************************************)
(* doStream: the call's inputs                                             *)
(***************************************************************************)

\* options.headers: undefined, or a map from header names to values.
NoHeaders == [defined |-> FALSE, map |-> <<>>]
HeadersOf(map) == [defined |-> TRUE, map |-> map]

BearerToken == <<"B","e","a","r","e","r"," ","t","o","k">>

AuthorizedHeaders ==
  HeadersOf(<< [k |-> "Authorization", v |-> JStr(BearerToken)] >>)

TracedHeaders ==
  HeadersOf(<< [k |-> "X-Trace", v |-> JStr(<<"1">>)],
               [k |-> "Authorization", v |-> JStr(BearerToken)] >>)

EmptyHeaders == HeadersOf(<<>>)
LowerCaseHeaders ==
  HeadersOf(<< [k |-> "authorization", v |-> JStr(BearerToken)] >>)
EmptyCredentialHeaders ==
  HeadersOf(<< [k |-> "Authorization", v |-> JStr(<<>>)] >>)
UndefinedCredentialHeaders ==
  HeadersOf(<< [k |-> "Authorization", v |-> Undef] >>)

HeaderChoices ==
  {NoHeaders, EmptyHeaders, AuthorizedHeaders, TracedHeaders,
   LowerCaseHeaders, EmptyCredentialHeaders, UndefinedCredentialHeaders}

\* headers?.[name]
HeaderGet(headers, name) ==
  IF headers.defined /\ \E i \in 1..Len(headers.map) : headers.map[i].k = name
  THEN headers.map[CHOOSE i \in 1..Len(headers.map) : headers.map[i].k = name].v
  ELSE Undef

\* A prompt is a sequence of messages, each a role and a sequence of content
\* parts; a part has a type and, when it is text, its text.
TextPart(text) == [type |-> "text", text |-> text]
OtherPart(type) == [type |-> type, text |-> <<>>]
Message(role, content) == [role |-> role, content |-> content]

SimplePrompt == << Message("user", << TextPart(<<"Q","?">>) >>) >>

TwoMessagePrompt ==
  << Message("system", << TextPart(<<"S">>) >>),
     Message("user", << TextPart(<<"a">>), TextPart(<<"b">>) >>) >>

FilePrompt == << Message("user", << OtherPart("file") >>) >>

TextThenFilePrompt ==
  << Message("user", << TextPart(<<"a">>), OtherPart("file"),
                        OtherPart("tool-call") >>) >>

ToolCallPrompt ==
  << Message("user", << TextPart(<<"a">>) >>),
     Message("assistant", << OtherPart("tool-call"), OtherPart("reasoning") >>),
     Message("tool", << OtherPart("tool-result") >>) >>

PromptChoices ==
  {<<>>, SimplePrompt, TwoMessagePrompt, FilePrompt, TextThenFilePrompt,
   ToolCallPrompt}

\* The backend's answer to the request: status line, and either the body
\* stream (or none) or, for a failure, the text of the body.
OkResponse ==
  [ok |-> TRUE, status |-> 200, statusText |-> "OK", hasBody |-> TRUE,
   text |-> <<>>]

ErrorResponse(status, statusText, text) ==
  [ok |-> FALSE, status |-> status, statusText |-> statusText,
   hasBody |-> TRUE, text |-> text]

\* oops
Body_oops == <<"o","o","p","s">>
\* {"detail":"bad token"}
Body_detail ==
  <<"{","\"","d","e","t","a","i","l","\"",":","\"","b","a","d"," ","t","o","k","e","n","\"","}">>
\* {"detail":""}
Body_emptyDetail == <<"{","\"","d","e","t","a","i","l","\"",":","\"","\"","}">>
\* {"error":"x"}
Body_noDetail == <<"{","\"","e","r","r","o","r","\"",":","\"","x","\"","}">>
\* null
Body_null == <<"n","u","l","l">>

NullBodyResponse == [OkResponse EXCEPT !.hasBody = FALSE]
UnauthorizedResponse == ErrorResponse(401, "Unauthorized", Body_detail)
ServerErrorResponse == ErrorResponse(500, "Internal Server Error", Body_oops)

ResponseChoices ==
  {OkResponse,
   NullBodyResponse,
   [OkResponse EXCEPT !.status = 204, !.statusText = "No Content",
                      !.hasBody = FALSE],
   ServerErrorResponse,
   UnauthorizedResponse,
   ErrorResponse(403, "Forbidden", Body_emptyDetail),
   ErrorResponse(422, "Unprocessable Entity", Body_noDetail),
   ErrorResponse(502, "Bad Gateway", Body_null),
   ErrorResponse(503, "Service Unavailable", <<>>)}

(***************************************************************************)
(* doStream: the checks, the request and the errors                        *)
(***************************************************************************)

\* A doStream without the credential check.
AuthorizationNeverMissing(headers) == FALSE

\* A check that takes the header name in either spelling.
AuthorizationMissingInAnyCase(headers) ==
  /\ ~Truthy(HeaderGet(headers, "Authorization"))
  /\ ~Truthy(HeaderGet(headers, "authorization"))

\* !headers?.['Authorization']
AuthorizationMissing(headers) == ~Truthy(HeaderGet(headers, "Authorization"))

\* The types of the content parts, message by message, part by part: the order
\* in which the two nested for loops visit them.
RECURSIVE PartTypes(_)
PartTypes(prompt) ==
  IF prompt = <<>> THEN <<>>
  ELSE [i \in 1..Len(Head(prompt).content) |-> Head(prompt).content[i].type]
         \o PartTypes(Tail(prompt))

\* The part at which the loops throw: the first whose type is not 'text'.
HasUnsupportedPart(prompt) ==
  \E i \in 1..Len(PartTypes(prompt)) : PartTypes(prompt)[i] # "text"

FirstUnsupportedType(prompt) ==
  LET types == PartTypes(prompt)
  IN  types[Min({i \in 1..Len(types) : types[i] # "text"})]

NoError == [name |-> "none"]

AuthenticationError ==
  [name |-> "Error",
   message |-> [text |-> "Authentication error: Authorization header is missing. Please provide a valid bearer token."]]

\* functionality: `Input type '${part.type}' is not supported by this model.`
UnsupportedFunctionalityError(partType) ==
  [name |-> "UnsupportedFunctionalityError",
   functionality |-> [text |-> "Input type '${part.type}' is not supported by this model.",
                      partType |-> partType]]

\* `API call failed with status ${response.status}: ${errorJson.detail || errorText}`
DetailError(response, errorJson) ==
  [name |-> "Error",
   message |-> [text |-> "API call failed with status ${status}: ${detail}",
                status |-> response.status,
                detail |-> IF Truthy(Get(errorJson, K_detail))
                           THEN Get(errorJson, K_detail)
                           ELSE JStr(response.text)]]

\* `API call failed with status ${response.status} ${response.statusText}: ${errorText}`
StatusTextError(response) ==
  [name |-> "Error",
   message |-> [text |-> "API call failed with status ${status} ${statusText}: ${errorText}",
                status |-> response.status,
                statusText |-> response.statusText,
                errorText |-> JStr(response.text)]]

SyntaxError == [name |-> "SyntaxError"]
TypeError == [name |-> "TypeError"]

\* What the try block throws: JSON.parse's SyntaxError, a TypeError for
\* reading .detail of null, or else the error it builds.
TryBlockThrows(response) ==
  LET errorJson == JSONParse(response.text)
  IN  IF ~errorJson.ok THEN SyntaxError
      ELSE IF errorJson.val.t = "null" THEN TypeError
      ELSE DetailError(response, errorJson.val)

\* A catch block that rethrows what it caught.
CatchBlockRethrows(e, response) == e

\* catch (e) { throw new Error(...) }: whatever was thrown in the try block.
CatchBlockThrows(e, response) == StatusTextError(response)

\* if (!response.ok) { ... }
NotOkError(response) == CatchBlockThrows(TryBlockThrows(response), response)

NullBodyError ==
  [name |-> "Error", message |-> [text |-> "API response body is null."]]

\* createLars: the registry's one model, and the constructor's baseURL
\* default.
ModelId == "caselaw"
BaseURL == "http://127.0.0.1:8000"

\* message.content.map(part => part.type === 'text' ? part.text : '').join('')
RECURSIVE JoinText(_)
JoinText(content) ==
  IF content = <<>> THEN <<>>
  ELSE (IF Head(content).type = "text" THEN Head(content).text ELSE <<>>)
         \o JoinText(Tail(content))

RequestBody(prompt) ==
  [model_id |-> ModelId,
   messages |-> [i \in 1..Len(prompt) |->
                   [role |-> prompt[i].role,
                    content |-> JoinText(prompt[i].content)]]]

\* combineHeaders(defaults, headers): later values replace earlier ones and
\* undefined values are dropped.
RECURSIVE PutAll(_, _)
PutAll(acc, pairs) ==
  IF pairs = <<>> THEN acc
  ELSE PutAll(IF Head(pairs).v.t = "undef" THEN acc
              ELSE ObjPut(acc, Head(pairs).k, Head(pairs).v),
              Tail(pairs))

DefaultHeaders ==
  << [k |-> "Content-Type", v |-> JStr(<<"application/json">>)],
     [k |-> "Accept", v |-> JStr(<<"text/event-stream">>)] >>

CombineHeaders(headers) == PutAll(DefaultHeaders, headers.map)

\* The request doStream hands to fetch.
\* options.abortSignal of call c.
AbortSignal(c) == [t |-> "signal", of |-> c]

\* A request built without the caller's signal.
RequestSignalOmitted(abortSignal) == Undef

\* signal: abortSignal
RequestSignal(abortSignal) == abortSignal

Request(headers, prompt, abortSignal) ==
  [url |-> <<BaseURL, "/api/v1/chat">>,
   method |-> "POST",
   headers |-> CombineHeaders(headers),
   body |-> RequestBody(prompt),
   signal |-> RequestSignal(abortSignal)]

(***************************************************************************)
(* The state machine.  Every variable is a function of the call.           *)
(***************************************************************************)

VARIABLES
  pc,           \* where the call is: "idle", "fetching", "streaming", "failed"
  headers,      \* options.headers
  prompt,       \* options.prompt
  response,     \* what the backend answers to the call's request
  frames,       \* the frames the backend sends as the body
  wire,         \* the text of the body: the frames, each with its separator,
                \* and possibly an unterminated rest
  delivered,    \* how many characters of the body have reached the transform
  buffer,       \* `let buffer`, the closure variable of the call
  out,          \* the parts enqueued on the returned stream, in order
  streamState,  \* "none" (no stream returned), "readable", "errored", "closed"
  handled,      \* the passes of the frame loop so far: message and parts
  carried,      \* whether a transform call has ended with text left in the
                \* buffer, that is, whether a chunk has ended inside a frame
  error,        \* the error doStream rejected with, or NoError
  fetched,      \* the requests the call has handed to fetch
  abort         \* the call's abort signal: "none", "signalled" (the caller
                \* has aborted), "observed" (the transfer has seen it)

vars ==
  <<pc, headers, prompt, response, frames, wire, delivered, buffer, out,
    streamState, handled, carried, error, fetched, abort>>

inputs == <<headers, prompt, response, frames, wire>>

Calls == DOMAIN pc

\* Rests of a body that ends without a separator.
UnterminatedRests == {F_textDeltaX, F_finishStop \o <<NL>>}

\* The inputs of one call.  A call that exercises the stream has the
\* credentials, a text prompt and a 200 response, and any of the modelled
\* bodies; a call that exercises the checks and the response handling has any
\* of the headers, prompts and responses, and a one-frame body.
StreamInputs ==
  {[headers |-> AuthorizedHeaders, prompt |-> SimplePrompt,
    response |-> OkResponse, frames |-> fs, wire |-> Wire(fs)] :
     fs \in FrameSeqs \cup {ScenarioFrames}}
  \cup
  {[headers |-> AuthorizedHeaders, prompt |-> SimplePrompt,
    response |-> OkResponse, frames |-> fs, wire |-> Wire(fs) \o rest] :
     fs \in {f \in FrameSeqs : Len(f) < MaxFrames
                                /\ \A i \in DOMAIN f : f[i] \in CommonFrames},
     rest \in UnterminatedRests}

CallInputs ==
  {[headers |-> h, prompt |-> p, response |-> r,
    frames |-> <<F_start>>, wire |-> Wire(<<F_start>>)] :
     h \in HeaderChoices, p \in PromptChoices, r \in ResponseChoices}

InitWith(in) ==
  /\ pc = [c \in DOMAIN in |-> "idle"]
  /\ headers = [c \in DOMAIN in |-> in[c].headers]
  /\ prompt = [c \in DOMAIN in |-> in[c].prompt]
  /\ response = [c \in DOMAIN in |-> in[c].response]
  /\ frames = [c \in DOMAIN in |-> in[c].frames]
  /\ wire = [c \in DOMAIN in |-> in[c].wire]
  /\ delivered = [c \in DOMAIN in |-> 0]
  /\ buffer = [c \in DOMAIN in |-> <<>>]
  /\ out = [c \in DOMAIN in |-> <<>>]
  /\ streamState = [c \in DOMAIN in |-> "none"]
  /\ handled = [c \in DOMAIN in |-> <<>>]
  /\ carried = [c \in DOMAIN in |-> FALSE]
  /\ error = [c \in DOMAIN in |-> NoError]
  /\ fetched = [c \in DOMAIN in |-> <<>>]
  /\ abort = [c \in DOMAIN in |-> "none"]

\* One buffer for every call: `let buffer` outside doStream.
SharedBuffer(c) == 1

\* `let buffer = ''` is declared in doStream: the transform of call c closes
\* over the buffer of call c.
BufferOf(c) == c

\* One call.
Init == \E in \in StreamInputs \cup CallInputs : InitWith([c \in {1} |-> in])

\* doStream up to `await fetch(...)`: the two checks, then the request.
DoStream(c) ==
  /\ pc[c] = "idle"
  /\ IF AuthorizationMissing(headers[c])
     THEN /\ pc' = [pc EXCEPT ![c] = "failed"]
          /\ error' = [error EXCEPT ![c] = AuthenticationError]
          /\ UNCHANGED fetched
     ELSE IF HasUnsupportedPart(prompt[c])
     THEN /\ pc' = [pc EXCEPT ![c] = "failed"]
          /\ error' = [error EXCEPT ![c] =
               UnsupportedFunctionalityError(FirstUnsupportedType(prompt[c]))]
          /\ UNCHANGED fetched
     ELSE /\ pc' = [pc EXCEPT ![c] = "fetching"]
          /\ fetched' = [fetched EXCEPT ![c] =
               Append(@, Request(headers[c], prompt[c], AbortSignal(c)))]
          /\ UNCHANGED error
  /\ UNCHANGED <<inputs, delivered, buffer, out, streamState, handled, carried,
                 abort>>

\* doStream from the response on: the status and the body are checked, then
\* the stream is built and returned, with a fresh empty buffer.
FetchResolved(c) ==
  /\ pc[c] = "fetching"
  /\ IF ~response[c].ok
     THEN /\ pc' = [pc EXCEPT ![c] = "failed"]
          /\ error' = [error EXCEPT ![c] = NotOkError(response[c])]
          /\ UNCHANGED <<streamState, buffer>>
     ELSE IF ~response[c].hasBody
     THEN /\ pc' = [pc EXCEPT ![c] = "failed"]
          /\ error' = [error EXCEPT ![c] = NullBodyError]
          /\ UNCHANGED <<streamState, buffer>>
     ELSE /\ pc' = [pc EXCEPT ![c] = "streaming"]
          /\ streamState' = [streamState EXCEPT ![c] = "readable"]
          /\ buffer' = [buffer EXCEPT ![BufferOf(c)] = <<>>]
          /\ UNCHANGED error
  /\ UNCHANGED <<inputs, delivered, out, handled, carried, fetched, abort>>

\* The lengths of the next chunk: up to MaxChunk characters, or all the rest.
ChunkLengths(c) ==
  LET left == Len(wire[c]) - delivered[c]
  IN  {n \in 1..MaxChunk : n <= left} \cup {left}

\* transform(chunk, controller): the next chunk of the body, of any length,
\* reaches the transform.
TransformChunk(c) ==
  /\ pc[c] = "streaming"
  /\ streamState[c] = "readable"
  /\ delivered[c] < Len(wire[c])
  /\ \E n \in ChunkLengths(c) :
       \E done \in {Transform(buffer[BufferOf(c)],
                   SubSeq(wire[c], delivered[c] + 1, delivered[c] + n))} :
           /\ delivered' = [delivered EXCEPT ![c] = @ + n]
           /\ buffer' = [buffer EXCEPT ![BufferOf(c)] = done.buffer]
           /\ out' = [out EXCEPT ![c] = EnqueueAll(@, done.passes)]
           /\ handled' = [handled EXCEPT ![c] = @ \o done.passes]
           /\ carried' = [carried EXCEPT ![c] = @ \/ done.buffer # <<>>]
           /\ streamState' = [streamState EXCEPT ![c] =
                CASE done.signal = "throw" -> "errored"
                  [] done.signal = "terminate" -> "closed"
                  [] OTHER -> @]
  /\ UNCHANGED <<inputs, pc, error, fetched, abort>>

\* The body ends: the readable side closes with what has been enqueued.
Close(c) ==
  /\ pc[c] = "streaming"
  /\ streamState[c] = "readable"
  /\ delivered[c] = Len(wire[c])
  /\ out' = [out EXCEPT ![c] = Enqueue(@, Flush(buffer[BufferOf(c)]))]
  /\ streamState' = [streamState EXCEPT ![c] = "closed"]
  /\ UNCHANGED <<inputs, pc, delivered, buffer, handled, carried, error,
                 fetched, abort>>

Next ==
  \E c \in Calls :
    \/ DoStream(c)
    \/ FetchResolved(c)
    \/ TransformChunk(c)
    \/ Close(c)

Spec == Init /\ [][Next]_vars

\* The caller aborts options.abortSignal while the call is in flight.
Signal(c) ==
  /\ abort[c] = "none"
  /\ pc[c] \in {"fetching", "streaming"}
  /\ abort' = [abort EXCEPT ![c] = "signalled"]
  /\ UNCHANGED <<inputs, pc, delivered, buffer, out, streamState, handled,
                 carried, error, fetched>>

AbortError == [name |-> "AbortError"]

\* The transfer sees the abort of the signal its request carries: a fetch
\* still pending rejects, and a body still streaming errors, which the pipes
\* carry to the returned stream.  Chunks may reach the transform between the
\* caller's abort and this step; none does after it.
AbortObserved(c) ==
  /\ abort[c] = "signalled"
  /\ fetched[c] # <<>>
  /\ fetched[c][Len(fetched[c])].signal = AbortSignal(c)
  /\ \/ /\ pc[c] = "fetching"
        /\ pc' = [pc EXCEPT ![c] = "failed"]
        /\ error' = [error EXCEPT ![c] = AbortError]
        /\ UNCHANGED streamState
     \/ /\ pc[c] = "streaming"
        /\ streamState[c] = "readable"
        /\ streamState' = [streamState EXCEPT ![c] = "errored"]
        /\ UNCHANGED <<pc, error>>
  /\ abort' = [abort EXCEPT ![c] = "observed"]
  /\ UNCHANGED <<inputs, delivered, buffer, out, handled, carried, fetched>>

\* One call that its caller may abort.
AbortInputs ==
  {[headers |-> AuthorizedHeaders, prompt |-> SimplePrompt,
    response |-> OkResponse, frames |-> fs, wire |-> Wire(fs)] :
     fs \in {<<F_start, F_textDeltaX>>, <<F_textDeltaHi, F_finishStop>>}}

InitAbort == \E in \in AbortInputs : InitWith([c \in {1} |-> in])

NextAbort ==
  \E c \in Calls :
    \/ DoStream(c)
    \/ FetchResolved(c)
    \/ TransformChunk(c)
    \/ Close(c)
    \/ Signal(c)
    \/ AbortObserved(c)

SpecAbort == InitAbort /\ [][NextAbort]_vars

\* The frame loop, one iteration at a time.  The chunk joins the buffer and
\* the call is in the loop (pc "looping") until the loop exits.
ReceiveChunk(c) ==
  /\ pc[c] = "streaming"
  /\ streamState[c] = "readable"
  /\ delivered[c] < Len(wire[c])
  /\ \E n \in ChunkLengths(c) :
       LET chunk == SubSeq(wire[c], delivered[c] + 1, delivered[c] + n)
       IN  /\ delivered' = [delivered EXCEPT ![c] = @ + n]
           /\ buffer' = [buffer EXCEPT ![BufferOf(c)] = AppendChunk(@, chunk)]
  /\ pc' = [pc EXCEPT ![c] = "looping"]
  /\ UNCHANGED <<inputs, out, streamState, handled, carried, error, fetched,
                 abort>>

\* One iteration that finds a separator: the message is taken from the
\* buffer and goes through the loop body.
LoopIteration(c) ==
  /\ pc[c] = "looping"
  /\ LET separatorIndex == IndexOf(buffer[BufferOf(c)], Separator)
     IN  /\ separatorIndex # -1
         /\ \E pass \in {ProcessMessage(Slice(buffer[BufferOf(c)], 0,
                                               separatorIndex))} :
                /\ buffer' = [buffer EXCEPT ![BufferOf(c)] =
                      SliceFrom(@, AfterSeparator(separatorIndex))]
                /\ out' = [out EXCEPT ![c] = Enqueue(@, pass.parts)]
                /\ handled' = [handled EXCEPT ![c] = Append(@, pass)]
                /\ pc' = [pc EXCEPT ![c] =
                      IF pass.signal = "ok" THEN "looping" ELSE "streaming"]
                /\ streamState' = [streamState EXCEPT ![c] =
                      CASE pass.signal = "throw" -> "errored"
                        [] pass.signal = "terminate" -> "closed"
                        [] OTHER -> @]
  /\ UNCHANGED <<inputs, delivered, carried, error, fetched, abort>>

\* The iteration that finds no separator: `break`, and transform returns.
LoopExit(c) ==
  /\ pc[c] = "looping"
  /\ IndexOf(buffer[BufferOf(c)], Separator) = -1
  /\ pc' = [pc EXCEPT ![c] = "streaming"]
  /\ carried' = [carried EXCEPT ![c] = @ \/ buffer[BufferOf(c)] # <<>>]
  /\ UNCHANGED <<inputs, delivered, buffer, out, streamState, handled, error,
                 fetched, abort>>

\* Bodies whose frames take every path through the loop body: an empty
\* message, the literal marker, text that is not JSON, JSON that fails the
\* schema, a valid event, a blank message, a message that begins with a line
\* feed, and a rest without separator.
LoopBodies ==
  {[frames |-> <<F_empty, F_doneMarker, F_notJson, F_deltaNumber,
                 F_textDeltaX>>,
    rest |-> <<>>],
   [frames |-> <<F_blank, F_lineFeedFirst, F_empty>>,
    rest |-> F_textDeltaX \o <<NL>>]}

LoopInputs ==
  {[headers |-> AuthorizedHeaders, prompt |-> SimplePrompt,
    response |-> OkResponse, frames |-> b.frames,
    wire |-> Wire(b.frames) \o b.rest] : b \in LoopBodies}

InitLoop == \E in \in LoopInputs : InitWith([c \in {1} |-> in])

NextLoop ==
  \E c \in Calls :
    \/ DoStream(c)
    \/ FetchResolved(c)
    \/ ReceiveChunk(c)
    \/ LoopIteration(c)
    \/ LoopExit(c)
    \/ Close(c)

SpecLoop == InitLoop /\ [][NextLoop]_vars

\* Two calls active at once, each with the credentials, a text prompt, a 200
\* response and its own body; their steps interleave in any order.
ConcBodies ==
  {<<F_start, F_done>>, <<F_textStart, F_doneMarker>>}

ConcInputs ==
  {[headers |-> AuthorizedHeaders, prompt |-> SimplePrompt,
    response |-> OkResponse, frames |-> fs, wire |-> Wire(fs)] :
     fs \in ConcBodies}

InitConc ==
  \E a \in ConcInputs, b \in ConcInputs :
    InitWith([c \in 1..2 |-> IF c = 1 THEN a ELSE b])

SpecConc == InitConc /\ [][Next]_vars

(***************************************************************************)
(* Properties                                                              *)
(***************************************************************************)

\* The parts of a sequence of passes, in order.
RECURSIVE PartsOf(_)
PartsOf(passes) ==
  IF passes = <<>> THEN <<>>
  ELSE Head(passes).parts \o PartsOf(Tail(passes))

MessagesOf(passes) == [i \in 1..Len(passes) |-> passes[i].message]

IsPrefix(s, t) == Len(s) <= Len(t) /\ s = SubSeq(t, 1, Len(s))

\* The call's stream has received all of its body.
AllDelivered(c) == pc[c] = "streaming" /\ delivered[c] = Len(wire[c])

\* The text a consumer assembles: the deltas of the text-delta parts, in order.
RECURSIVE EmittedText(_)
EmittedText(parts) ==
  IF parts = <<>> THEN <<>>
  ELSE (IF Head(parts).type = "text-delta" THEN Head(parts).delta ELSE <<>>)
         \o EmittedText(Tail(parts))

\* C1: chunk-boundary independence.  However the text delivered so far was cut
\* into chunks, the parts enqueued and the text left in the buffer are those of
\* one transform call on that text as a single chunk; and the text-delta frame
\* of the specification's scenario, once delivered, has given exactly one
\* text-delta part with delta "X".
ChunkBoundaryIndependence ==
  \A c \in Calls :
    pc[c] = "streaming" =>
      LET whole == Transform(<<>>, SubSeq(wire[c], 1, delivered[c]))
      IN  /\ out[c] = PartsOf(whole.passes)
          /\ buffer[c] = whole.buffer
          /\ (frames[c] = <<F_textDeltaX>> /\ AllDelivered(c)) =>
               out[c] = << TextDelta(TextBlock, <<"X">>) >>

\* The text-delta frame has arrived in several chunks, one of which ended
\* inside it, and has given its one part.
ChunkBoundaryWitness ==
  \E c \in Calls :
    /\ frames[c] = <<F_textDeltaX>>
    /\ wire[c] = F_textDeltaX \o Separator
    /\ AllDelivered(c)
    /\ carried[c]
    /\ out[c] = << TextDelta(TextBlock, <<"X">>) >>

\* The deltas the valid text-delta frames of the catalogue carry.
DeltaOfFrame(frame) ==
  CASE frame = F_textDeltaHi -> <<"H","i">>
    [] frame = F_textDeltaThere -> <<" ","t","h","e","r","e">>
    [] frame = F_textDeltaX -> <<"X">>
    [] OTHER -> <<>>

RECURSIVE DeltasOfFrames(_)
DeltasOfFrames(fs) ==
  IF fs = <<>> THEN <<>>
  ELSE DeltaOfFrame(Head(fs)) \o DeltasOfFrames(Tail(fs))

\* C2: order preservation.  In every step, for every call: the parts already
\* enqueued stay where they are, at the head of the queue; the frames handled
\* are the frames of the body in their order of arrival; the queue is the
\* parts of those frames, frame by frame; and the text of the text-delta
\* parts is the deltas of the valid text-delta frames handled, in order.
OrderPreservation ==
  [][\A c \in Calls :
       /\ IsPrefix(out[c], out'[c])
       /\ IsPrefix(MessagesOf(handled'[c]), frames[c])
       /\ out'[c] = PartsOf(handled'[c])
       /\ EmittedText(out'[c]) = DeltasOfFrames(MessagesOf(handled'[c]))]_vars

\* The scenario of the specification, delivered in chunks that ended inside
\* frames: its six parts in order, and the text "Hi there".
OrderWitness ==
  \E c \in Calls :
    /\ frames[c] = ScenarioFrames
    /\ AllDelivered(c)
    /\ carried[c]
    /\ out[c] = << StreamStart,
                   TextStart(<<"t","1">>),
                   TextDelta(<<"t","1">>, <<"H","i">>),
                   TextDelta(<<"t","1">>, <<" ","t","h","e","r","e">>),
                   TextEnd(<<"t","1">>),
                   FinishPart(Stop, ZeroUsage) >>
    /\ EmittedText(out[c]) = <<"H","i"," ","t","h","e","r","e">>

\* The frames of the catalogue that are malformed: not JSON, JSON that is not
\* an event of the schema, a type outside the enumeration.
MalformedFrames ==
  {F_truncated, F_notJson, F_deltaNumber, F_notObject, F_finishPartial,
   F_unknownType}

Without(fs, dropped) == SelectSeq(fs, LAMBDA f : f \notin dropped)

\* The unterminated rest of the call's body.
Rest(c) == SliceFrom(wire[c], Len(Wire(frames[c])))

\* C3: a malformed frame enqueues nothing and does not end the loop, error the
\* stream or close it; and once the body is delivered, the queue is that of
\* the same body without its malformed frames.
MalformedFramesAreDropped ==
  \A c \in Calls :
    /\ \A i \in 1..Len(handled[c]) :
         handled[c][i].message \in MalformedFrames =>
           handled[c][i].parts = <<>> /\ handled[c][i].signal = "ok"
    /\ (\E i \in 1..Len(frames[c]) : frames[c][i] \in MalformedFrames) =>
         /\ streamState[c] # "errored"
         /\ streamState[c] = "closed" => delivered[c] = Len(wire[c])
         /\ AllDelivered(c) =>
              out[c] = PartsOf(Transform(<<>>,
                         Wire(Without(frames[c], MalformedFrames)) \o Rest(c)).passes)

\* A frame that is not JSON has been handled, and the valid frame after it
\* has given its part.
MalformedWitness ==
  \E c \in Calls :
    /\ frames[c] = <<F_truncated, F_textDeltaHi>>
    /\ AllDelivered(c)
    /\ streamState[c] = "readable"
    /\ Len(handled[c]) = 2
    /\ out[c] = << TextDelta(<<"t","1">>, <<"H","i">>) >>

\* Headers that carry no credential, and headers that carry one under the
\* key Authorization.
UncredentialedHeaders ==
  {NoHeaders, EmptyHeaders, UndefinedCredentialHeaders, EmptyCredentialHeaders}
CredentialedHeaders == {AuthorizedHeaders, TracedHeaders}

\* The kind of the first content part of the prompt that is not text.
FirstOffendingKind(p) ==
  CASE p = FilePrompt -> "file"
    [] p = TextThenFilePrompt -> "file"
    [] p = ToolCallPrompt -> "tool-call"
    [] OTHER -> "none"

\* C4: a call whose headers carry no credential, or whose prompt has a part
\* that is not text, never hands a request to fetch and never returns a
\* stream: it fails, with the authentication error when the credential is
\* missing, and otherwise with an UnsupportedFunctionalityError that names
\* the kind of the first offending part.
PreconditionsBeforeNetwork ==
  \A c \in Calls :
    LET uncredentialed == headers[c] \in UncredentialedHeaders
        kind == FirstOffendingKind(prompt[c])
    IN  (uncredentialed \/ kind # "none") =>
          /\ fetched[c] = <<>>
          /\ pc[c] \in {"idle", "failed"}
          /\ streamState[c] = "none"
          /\ out[c] = <<>>
          /\ (pc[c] = "failed" /\ uncredentialed) =>
               error[c] = AuthenticationError
          /\ (pc[c] = "failed" /\ headers[c] \in CredentialedHeaders) =>
               /\ error[c].name = "UnsupportedFunctionalityError"
               /\ error[c].functionality.partType = kind

\* A credentialed call whose prompt has a file part after a text part and
\* before a tool call has failed, naming the file part, with no request made.
PreconditionsWitness ==
  \E c \in Calls :
    /\ headers[c] = AuthorizedHeaders
    /\ prompt[c] = TextThenFilePrompt
    /\ pc[c] = "failed"
    /\ error[c] = UnsupportedFunctionalityError("file")
    /\ fetched[c] = <<>>

Usage(inputTokens, outputTokens, totalTokens, reasoningTokens) ==
  [inputTokens |-> inputTokens, outputTokens |-> outputTokens,
   totalTokens |-> totalTokens, reasoningTokens |-> reasoningTokens]

\* The usage the finish part of a finish frame is to carry: the counts the
\* frame supplies, 0 for those of inputTokens, outputTokens and totalTokens it
\* omits, and no reasoningTokens unless supplied.
ZeroFilledUsage(frame) ==
  CASE frame = F_finishUsage -> Usage(3, 5, 8, Undef)
    [] frame = F_finishReasoning -> Usage(3, 5, 10, JNum(2))
    [] frame = F_finishPartial -> Usage(3, 0, 0, Undef)
    [] OTHER -> ZeroUsage

\* The finish frames that omit some or all of the counts, and of them those
\* that omit the usage or give at least the three required counts.
FramesOmittingCounts ==
  {F_finishStop, F_finishBare, F_finishEmptyReason, F_finishUsage,
   F_finishPartial}
FramesOmittingLawfully ==
  {F_finishStop, F_finishBare, F_finishEmptyReason, F_finishUsage}

OneFinishPart(pass) ==
  /\ Len(pass.parts) = 1
  /\ pass.parts[1].type = "finish"
  /\ pass.parts[1].usage = ZeroFilledUsage(pass.message)

\* C5 as claimed: every finish frame that omits some or all of the counts
\* gives exactly one finish part, zero-filled.
EveryOmittedCountIsZeroFilled ==
  \A c \in Calls : \A i \in 1..Len(handled[c]) :
    handled[c][i].message \in FramesOmittingCounts =>
      OneFinishPart(handled[c][i])

\* C5 as amended: a finish frame that omits its usage, or whose usage gives
\* inputTokens, outputTokens and totalTokens, gives exactly one finish part:
\* zeros for the three counts when the usage is omitted, the counts supplied
\* otherwise, and no reasoningTokens unless supplied.  A finish frame whose
\* usage omits one of the three required counts fails the schema and gives
\* no part.
ZeroFillOfOmittedUsage ==
  \A c \in Calls : \A i \in 1..Len(handled[c]) :
    /\ handled[c][i].message \in FramesOmittingLawfully \cup {F_finishReasoning} =>
         OneFinishPart(handled[c][i])
    /\ handled[c][i].message = F_finishPartial => handled[c][i].parts = <<>>

\* A finish frame whose usage omits only reasoningTokens has given its part.
ZeroFillWitness ==
  \E c \in Calls :
    /\ frames[c] = <<F_finishUsage>>
    /\ AllDelivered(c)
    /\ out[c] = << FinishPart(<<"l","e","n","g","t","h">>, Usage(3, 5, 8, Undef)) >>

\* C6: a finish frame with no usage gives exactly one finish part, with the
\* three counts 0, no reasoningTokens, and the frame's finishReason or, when
\* it has none, "stop".
FinishWithoutUsage ==
  \A c \in Calls : \A i \in 1..Len(handled[c]) :
    LET pass == handled[c][i]
    IN  /\ pass.message = F_finishBare =>
             pass.parts = << FinishPart(Stop, ZeroUsage) >>
        /\ pass.message = F_finishStop =>
             pass.parts = << FinishPart(<<"s","t","o","p">>, ZeroUsage) >>
        /\ pass.message = F_finishEmptyReason =>
             pass.parts = << FinishPart(<<>>, ZeroUsage) >>

\* A finish frame with neither usage nor finishReason has given its part.
FinishWithoutUsageWitness ==
  \E c \in Calls :
    /\ frames[c] = <<F_finishBare>>
    /\ AllDelivered(c)
    /\ out[c] = << FinishPart(<<"s","t","o","p">>, ZeroUsage) >>

\* The delta frames of the catalogue: those whose delta is absent or empty,
\* and the others with the type and delta of their part.
FramesWithoutDelta ==
  {F_textDeltaEmpty, F_textDeltaAbsent, F_reasoningDeltaEmpty}

FramesWithDelta ==
  {F_textDeltaHi, F_textDeltaThere, F_textDeltaX, F_reasoningDelta}

DeltaTypeOfFrame(frame) ==
  IF frame = F_reasoningDelta THEN "reasoning-delta" ELSE "text-delta"

DeltaTextOfFrame(frame) ==
  IF frame = F_reasoningDelta THEN <<"H","m">> ELSE DeltaOfFrame(frame)

\* C7: a delta frame whose delta is absent or empty gives no part; one whose
\* delta is not empty gives exactly one part, of its type, with that delta.
DeltaFrames ==
  \A c \in Calls : \A i \in 1..Len(handled[c]) :
    LET pass == handled[c][i]
    IN  /\ pass.message \in FramesWithoutDelta => pass.parts = <<>>
        /\ pass.message \in FramesWithDelta =>
             /\ Len(pass.parts) = 1
             /\ pass.parts[1].type = DeltaTypeOfFrame(pass.message)
             /\ pass.parts[1].delta = DeltaTextOfFrame(pass.message)

\* A text-delta frame with an empty delta has been handled and has given
\* nothing, and the one after it has given its part.
DeltaFramesWitness ==
  \E c \in Calls :
    /\ frames[c] = <<F_textDeltaEmpty, F_textDeltaHi>>
    /\ AllDelivered(c)
    /\ Len(handled[c]) = 2
    /\ out[c] = << TextDelta(<<"t","1">>, <<"H","i">>) >>

\* C8: a metadata frame without data gives no part; one with data, the empty
\* map included, gives exactly one data part with that map.
MetadataFrames ==
  \A c \in Calls : \A i \in 1..Len(handled[c]) :
    LET pass == handled[c][i]
    IN  /\ pass.message = F_metadataNone => pass.parts = <<>>
        /\ pass.message = F_metadata =>
             pass.parts =
               << DataPart(JObj(<< [k |-> <<"k">>, v |-> JStr(<<"v">>)] >>)) >>
        /\ pass.message = F_metadataEmpty =>
             pass.parts = << DataPart(JObj(<<>>)) >>

\* A metadata frame with the empty map has given its data part.
MetadataWitness ==
  \E c \in Calls :
    /\ frames[c] = <<F_metadataEmpty>>
    /\ AllDelivered(c)
    /\ out[c] = << DataPart(JObj(<<>>)) >>

\* The frames that end a stream logically, and the blank ones.
SwallowedFrames == {F_done, F_doneMarker, F_empty, F_blank}

\* C9: a done frame, the literal data: [DONE] and a blank frame give no part
\* and leave the loop and the stream as they are, wherever they stand: the
\* stream is not errored, it closes only when the body has ended, every frame
\* of the body is handled, and the queue is that of the body without them.
TerminationMarkersSwallowed ==
  \A c \in Calls :
    /\ \A i \in 1..Len(handled[c]) :
         handled[c][i].message \in SwallowedFrames =>
           handled[c][i].parts = <<>> /\ handled[c][i].signal = "ok"
    /\ (\E i \in 1..Len(frames[c]) : frames[c][i] \in SwallowedFrames) =>
         /\ streamState[c] # "errored"
         /\ streamState[c] = "closed" => delivered[c] = Len(wire[c])
         /\ AllDelivered(c) =>
              /\ Len(handled[c]) = Len(frames[c])
              /\ out[c] = PartsOf(Transform(<<>>,
                            Wire(Without(frames[c], SwallowedFrames)) \o Rest(c)).passes)

\* A done frame came first; the frame after it has given its part and the
\* stream is still open.
TerminationMarkersWitness ==
  \E c \in Calls :
    /\ frames[c] = <<F_done, F_textDeltaHi>>
    /\ AllDelivered(c)
    /\ streamState[c] = "readable"
    /\ out[c] = << TextDelta(<<"t","1">>, <<"H","i">>) >>

\* The error carries the status of the response and the text of its body (or
\* the detail that body gives).
CarriesStatusAndText(e, r) ==
  /\ e.name = "Error"
  /\ "status" \in DOMAIN e.message
  /\ e.message.status = r.status
  /\ \/ "errorText" \in DOMAIN e.message /\ e.message.errorText = JStr(r.text)
     \/ /\ "detail" \in DOMAIN e.message
        /\ r.text = Body_detail
        /\ e.message.detail = JStr(<<"b","a","d"," ","t","o","k","e","n">>)

\* C10: once the response has been seen, a call whose response is not a
\* success has failed with an error that carries the status and the text of
\* the body; a call whose response is a success without a body has failed
\* with another error, which carries no status; neither has a stream or a
\* part.
TransportFailuresAreFatal ==
  \A c \in Calls :
    (fetched[c] # <<>> /\ pc[c] # "fetching") =>
      /\ ~response[c].ok =>
           /\ pc[c] = "failed"
           /\ streamState[c] = "none"
           /\ out[c] = <<>>
           /\ CarriesStatusAndText(error[c], response[c])
      /\ (response[c].ok /\ ~response[c].hasBody) =>
           /\ pc[c] = "failed"
           /\ streamState[c] = "none"
           /\ out[c] = <<>>
           /\ error[c] = NullBodyError
           /\ ~CarriesStatusAndText(error[c], response[c])

\* A call answered 500 with a body that is not JSON has failed.
TransportFailuresWitness ==
  \E c \in Calls :
    /\ response[c] = ServerErrorResponse
    /\ fetched[c] # <<>>
    /\ pc[c] = "failed"
    /\ error[c].message.status = 500
    /\ error[c].message.errorText = JStr(Body_oops)


\* The queue and the buffer are what one transform call, alone, on the text
\* enqueues and leaves buffered.
AsIfAlone(text, queue, buffered) ==
  LET whole == Transform(<<>>, text)
  IN  queue = PartsOf(whole.passes) /\ buffered = whole.buffer

\* C11: per-call isolation.  With two calls active and their steps
\* interleaved in any order, after every step each streaming call has
\* enqueued and buffered what it would alone on the text delivered to it, and
\* a step in which a call neither starts its stream nor receives a chunk
\* leaves that call's buffer and queue as they were.
PerCallIsolation ==
  [][\A c \in Calls :
       /\ pc'[c] = "streaming" =>
            AsIfAlone(SubSeq(wire[c], 1, delivered'[c]), out'[c], buffer'[c])
       /\ (pc'[c] = pc[c] /\ delivered'[c] = delivered[c]) =>
            (buffer'[c] = buffer[c] /\ out'[c] = out[c])]_vars

\* Both calls are inside a frame at once, each after having enqueued parts of
\* its own, and the two have different text in their buffers.
PerCallIsolationWitness ==
  /\ Calls = {1, 2}
  /\ \A c \in Calls : pc[c] = "streaming" /\ out[c] # <<>> /\ buffer[c] # <<>>
  /\ buffer[1] # buffer[2]
  /\ out[1] # out[2]


\* C12: cancellation.  The request handed to fetch carries the call's abort
\* signal; once the transfer has observed the abort, no step enqueues a part
\* or touches the buffer, the stream is no longer readable, and every part
\* enqueued is the part of a frame that had arrived whole: the text that was
\* in the buffer as the beginning of a frame has given none.
CancellationStopsEvents ==
  [][\A c \in Calls :
       /\ fetched'[c] # <<>> => fetched'[c][1].signal = AbortSignal(c)
       /\ abort[c] = "observed" =>
            /\ out'[c] = out[c]
            /\ buffer'[c] = buffer[c]
            /\ handled'[c] = handled[c]
       /\ (abort'[c] = "observed" /\ pc'[c] = "streaming") =>
            /\ streamState'[c] # "readable"
            /\ out'[c] = PartsOf(handled'[c])
            /\ IsPrefix(MessagesOf(handled'[c]), frames[c])
            /\ AsIfAlone(SubSeq(wire[c], 1, delivered'[c]), out'[c], buffer'[c])
     ]_vars

\* The abort was observed inside the second frame, after the first had given
\* its part: the stream is errored with the beginning of the frame in the
\* buffer and the rest of the body undelivered.
CancellationWitness ==
  \E c \in Calls :
    /\ abort[c] = "observed"
    /\ pc[c] = "streaming"
    /\ streamState[c] = "errored"
    /\ frames[c] = <<F_start, F_textDeltaX>>
    /\ out[c] = <<StreamStart>>
    /\ buffer[c] # <<>>
    /\ delivered[c] < Len(wire[c])


ErrorFrames == {F_error, F_errorNoText}

\* The message of the error part an error frame of the catalogue gives.
ErrorMessageOfFrame(frame) ==
  IF frame = F_error THEN <<"b","o","o","m">> ELSE UnknownBackendError

\* C13: an error frame gives exactly one error part, with the backend's
\* errorText or else the default message, and the loop goes on; a stream with
\* an error frame is not errored, closes only when its body has ended, and
\* once the body is delivered every frame has been handled and the frames
\* after the error frame have given their parts, in order.
ErrorFrameDoesNotEndStream ==
  \A c \in Calls :
    /\ \A i \in 1..Len(handled[c]) :
         handled[c][i].message \in ErrorFrames =>
           /\ handled[c][i].parts =
                << ErrorPart(ErrorMessageOfFrame(handled[c][i].message)) >>
           /\ handled[c][i].signal = "ok"
    /\ (\E i \in 1..Len(frames[c]) : frames[c][i] \in ErrorFrames) =>
         /\ streamState[c] # "errored"
         /\ streamState[c] = "closed" => delivered[c] = Len(wire[c])
         /\ AllDelivered(c) =>
              /\ Len(handled[c]) = Len(frames[c])
              /\ \A i \in 1..Len(frames[c]) :
                   handled[c][i] = ProcessMessage(frames[c][i])
              /\ out[c] = PartsOf(handled[c])

\* An error frame without errorText came first: the default message, then the
\* part of the text-delta frame after it, on a stream still open.
ErrorFrameWitness ==
  \E c \in Calls :
    /\ frames[c] = <<F_errorNoText, F_textDeltaHi>>
    /\ AllDelivered(c)
    /\ streamState[c] = "readable"
    /\ out[c] = << ErrorPart(UnknownBackendError),
                   TextDelta(<<"t","1">>, <<"H","i">>) >>


ReasoningPartTypes == {"reasoning-start", "reasoning-delta", "reasoning-end"}
TextPartTypes == {"text-start", "text-delta", "text-end"}

\* The block identifier a part of the given type must carry for a frame: the
\* id member of the frame's JSON text when it has one, the sentinel otherwise.
BlockIdOfFrame(message, partType) ==
  LET json == JSONParse(StripDataPrefix(message)).val
  IN  IF HasKey(json, K_id) THEN Get(json, K_id).s
      ELSE IF partType \in ReasoningPartTypes
           THEN <<"r","e","a","s","o","n","i","n","g","-","b","l","o","c","k">>
           ELSE <<"t","e","x","t","-","b","l","o","c","k">>

\* C14: every reasoning-start, -delta, -end and text-start, -delta, -end part
\* enqueued carries the id of the frame it comes from when the frame has one
\* (the empty string included), and otherwise "reasoning-block" for the
\* reasoning parts and "text-block" for the text parts.
BlockIdentifiers ==
  \A c \in Calls :
    /\ out[c] = PartsOf(handled[c])
    /\ \A i \in 1..Len(handled[c]) :
         \A j \in 1..Len(handled[c][i].parts) :
           LET part == handled[c][i].parts[j]
           IN  part.type \in ReasoningPartTypes \cup TextPartTypes =>
                 part.id = BlockIdOfFrame(handled[c][i].message, part.type)

\* A reasoning-delta frame with the empty id has given a part with the empty
\* id, after a text-delta frame whose part carries the frame's id.
BlockIdentifiersWitness ==
  \E c \in Calls :
    /\ frames[c] = <<F_textDeltaHi, F_reasoningDeltaEmptyId>>
    /\ AllDelivered(c)
    /\ out[c] = << TextDelta(<<"t","1">>, <<"H","i">>),
                   ReasoningDelta(<<>>, <<"H","m">>) >>


\* C15: the buffer invariant.  Between transform calls the buffer of a
\* streaming call holds no separator, and the text received so far is the
\* messages taken, each followed by its separator, followed by the buffer:
\* the buffer is the text after the last separator taken, and every frame
\* whose separator has arrived has been through the loop, its parts enqueued.
BufferInvariant ==
  \A c \in Calls :
    pc[c] = "streaming" =>
      /\ IndexOf(buffer[c], Separator) = -1
      /\ Wire(MessagesOf(handled[c])) \o buffer[c]
           = SubSeq(wire[c], 1, delivered[c])
      /\ out[c] = PartsOf(handled[c])
      /\ \A i \in 1..Len(handled[c]) :
           handled[c][i].parts = ProcessMessage(frames[c][i]).parts

\* One chunk brought the whole body, two frames and their separators: both
\* frames have been through the loop in that one call and the buffer is empty.
BufferInvariantWitness ==
  \E c \in Calls :
    /\ frames[c] = <<F_textDeltaHi, F_textDeltaX>>
    /\ AllDelivered(c)
    /\ ~carried[c]
    /\ buffer[c] = <<>>
    /\ out[c] = << TextDelta(<<"t","1">>, <<"H","i">>),
                   TextDelta(TextBlock, <<"X">>) >>


\* C16: the frame loop terminates.  Every step of a call that is in the loop
\* is an iteration that takes a message, be it skipped, unparsable, invalid
\* or translated, and leaves the buffer shorter by the message and the two
\* characters of its separator, so by two characters at least, or is the
\* exit, taken as soon as the buffer holds no separator: the length of the
\* buffer bounds the iterations of one transform call.
LoopTerminates ==
  [][\A c \in Calls :
       (pc[c] = "looping" /\ <<pc[c], buffer[c], handled[c]>>
                               # <<pc'[c], buffer'[c], handled'[c]>>) =>
         \/ /\ Len(handled'[c]) = Len(handled[c]) + 1
            /\ Len(buffer'[c]) + 2 <= Len(buffer[c])
            /\ Len(buffer'[c]) + 2 + Len(handled'[c][Len(handled'[c])].message)
                 = Len(buffer[c])
         \/ /\ pc'[c] = "streaming"
            /\ handled'[c] = handled[c]
            /\ buffer'[c] = buffer[c]
            /\ IndexOf(buffer[c], Separator) = -1]_vars

\* One chunk brought an empty message, the literal marker, text that is not
\* JSON, an event that fails the schema and a valid event: the loop made five
\* iterations, only the last gave a part, and it has exited.
LoopTerminatesWitness ==
  \E c \in Calls :
    /\ wire[c] = Wire(<<F_empty, F_doneMarker, F_notJson, F_deltaNumber,
                        F_textDeltaX>>)
    /\ pc[c] = "streaming"
    /\ delivered[c] = Len(wire[c])
    /\ ~carried[c]
    /\ Len(handled[c]) = 5
    /\ \A i \in 1..4 : handled[c][i].parts = <<>>
    /\ out[c] = << TextDelta(TextBlock, <<"X">>) >>
    /\ buffer[c] = <<>>


\* C17: when the body has ended and the stream has closed, the text left in
\* the buffer, the rest of the body after its last separator, has given no
\* part: the queue is that of the frames that came with their separator, and
\* closing enqueues nothing, also when the rest is a whole data line that
\* would have given a part had its separator come.
RestDiscardedAtClose ==
  [][\A c \in Calls :
       (pc[c] = "streaming" /\ streamState'[c] = "closed"
          /\ delivered[c] = Len(wire[c])) =>
         /\ out'[c] = out[c]
         /\ buffer'[c] = Rest(c)
         /\ out'[c] = PartsOf(Transform(<<>>, Wire(frames[c])).passes)
         /\ Len(handled'[c]) = Len(frames[c])]_vars

\* The body ended with a whole text-delta line that lacked its separator: the
\* stream has closed with the part of the frame before it only, and the line,
\* which would give a part, is still in the buffer.
RestDiscardedWitness ==
  \E c \in Calls :
    /\ wire[c] = Wire(<<F_textDeltaHi>>) \o F_textDeltaX
    /\ pc[c] = "streaming"
    /\ streamState[c] = "closed"
    /\ buffer[c] = F_textDeltaX
    /\ ProcessMessage(buffer[c]).parts = << TextDelta(TextBlock, <<"X">>) >>
    /\ out[c] = << TextDelta(<<"t","1">>, <<"H","i">>) >>


\* The frames of the catalogue that end a stream logically.
TerminalFrames ==
  {F_finishStop, F_finishBare, F_finishEmptyReason, F_finishUsage,
   F_finishReasoning, F_done, F_doneMarker}

\* C18: no terminal state.  A finish frame, a done frame and the literal
\* data: [DONE] leave the loop going and the stream readable: a text-delta
\* frame gives the same part after one of them as before, the stream closes
\* only when the body has ended, and once the body is delivered every frame
\* has been handled and the queue holds the parts of all of them in order.
NoTerminalState ==
  \A c \in Calls :
    /\ \A i \in 1..Len(handled[c]) :
         /\ handled[c][i].message \in TerminalFrames =>
              handled[c][i].signal = "ok"
         /\ handled[c][i].message = F_textDeltaHi =>
              handled[c][i].parts = << TextDelta(<<"t","1">>, <<"H","i">>) >>
    /\ (\E i \in 1..Len(frames[c]) : frames[c][i] \in TerminalFrames) =>
         /\ streamState[c] # "errored"
         /\ streamState[c] = "closed" => delivered[c] = Len(wire[c])
         /\ AllDelivered(c) =>
              /\ MessagesOf(handled[c]) = frames[c]
              /\ out[c] = PartsOf(handled[c])

\* A finish frame came first: its finish part, then the part of the
\* text-delta frame after it, on a stream still open.
NoTerminalStateWitness ==
  \E c \in Calls :
    /\ frames[c] = <<F_finishStop, F_textDeltaHi>>
    /\ AllDelivered(c)
    /\ streamState[c] = "readable"
    /\ out[c] = << FinishPart(Stop, ZeroUsage),
                   TextDelta(<<"t","1">>, <<"H","i">>) >>


\* C19, as claimed: a call answered with a status that is not a success and
\* a JSON body with a non-empty detail fails with the message that carries
\* the status and the detail, and the message with the status text and the
\* raw body is that of a body that is not valid JSON only.  The code's catch
\* block also catches the error its try block throws, so this does not hold.
DetailMessageForJsonBodies ==
  \A c \in Calls :
    (fetched[c] # <<>> /\ pc[c] = "failed" /\ ~response[c].ok) =>
      LET json == JSONParse(response[c].text)
      IN  /\ (json.ok /\ json.val.t = "obj"
                /\ Truthy(Get(json.val, K_detail))) =>
               error[c] = DetailError(response[c], json.val)
          /\ error[c] = StatusTextError(response[c]) => ~json.ok


\* The headers hold a non-empty string under the key spelled Authorization.
HoldsAuthorization(h) ==
  /\ h.defined
  /\ \E i \in 1..Len(h.map) :
       /\ h.map[i].k = "Authorization"
       /\ h.map[i].v.t = "str"
       /\ h.map[i].v.s # <<>>

\* C20: once doStream has made its checks, the call has failed with the
\* authentication error, no request made, exactly when its headers do not
\* hold a non-empty value under the key spelled Authorization: a credential
\* under the key authorization and an empty value count as missing, and with
\* such a value the call goes on to the prompt check and, if that passes, to
\* fetch.
CredentialCheckIsExact ==
  \A c \in Calls :
    pc[c] # "idle" =>
      /\ ~HoldsAuthorization(headers[c]) <=>
           (pc[c] = "failed" /\ error[c] = AuthenticationError
              /\ fetched[c] = <<>>)
      /\ headers[c] \in {LowerCaseHeaders, EmptyCredentialHeaders} =>
           (error[c] = AuthenticationError /\ fetched[c] = <<>>)
      /\ (HoldsAuthorization(headers[c])
            /\ FirstOffendingKind(prompt[c]) = "none") => fetched[c] # <<>>

\* A call whose only credential is under the key authorization has failed
\* with the authentication error and no request.
CredentialCheckWitness ==
  \E c \in Calls :
    /\ headers[c] = LowerCaseHeaders
    /\ prompt[c] = SimplePrompt
    /\ pc[c] = "failed"
    /\ error[c] = AuthenticationError
    /\ fetched[c] = <<>>

=============================================================================
